---- MODULE Spec2Model ----
(***************************************************************************)
(* Model of KnowledgeGrapher/graph/importer.py: the import orchestrator    *)
(* (ontologiesImport, databasesImport, experimentsImport, fullImport) and  *)
(* the statistics ledger it keeps in an HDF store (setupStats,             *)
(* createEmptyStats, loadStats, writeStats, getStatsName).                 *)
(*                                                                         *)
(* Python strings are modelled as sequences of one-character strings, so   *)
(* that os.path.join, str.replace and the iteration over a string do what  *)
(* they do in Python.  Paths and names are abbreviated.                    *)
(***************************************************************************)
EXTENDS Integers, Sequences, FiniteSets, TLC

(***************************************************************************)
(* Bounds of the model                                                     *)
(***************************************************************************)
\* top-level calls of the importer made one after another on the same disk
MaxCalls == 2
\* largest parallelism degree given to a direct call
MaxJobs == 2

\* top-level calls of the ledger functions made over the releases
MaxLedgerCalls == 4
\* longest version string of the key specification
MaxVersionLen == 2

(***************************************************************************)
(* Generic helpers                                                         *)
(***************************************************************************)
Range(s) == {s[i] : i \in 1..Len(s)}

IsPrefix(s, t) == Len(s) <= Len(t) /\ SubSeq(t, 1, Len(s)) = s

EmptyFcn == [x \in {} |-> <<>>]

\* the number of indices of sequence s that hold x
Count(s, x) == Cardinality({i \in 1..Len(s) : s[i] = x})

(***************************************************************************)
(* Python built-ins used by the importer                                   *)
(***************************************************************************)
\* os.path.join(a, b) on POSIX
PathJoin(a, b) ==
    IF Len(b) > 0 /\ b[1] = "/" THEN b
    ELSE IF Len(a) = 0 \/ a[Len(a)] = "/" THEN a \o b
    ELSE a \o <<"/">> \o b

\* str.replace(old, new) for one-character old and new
StrReplaceFirst(s, old, new) ==
    [i \in 1..Len(s) |->
        IF s[i] = old /\ (\A j \in 1..(i - 1) : s[j] # old) THEN new ELSE s[i]]
StrReplace(s, old, new) == [i \in 1..Len(s) |-> IF s[i] = old THEN new ELSE s[i]]

\* iterating a value: a list gives its items, a str gives its characters,
\* each a str of length one
Iterate(v) ==
    IF v.kind = "str" THEN [i \in 1..Len(v.val) |-> <<v.val[i]>>]
    ELSE v.val

None == [kind |-> "None", val |-> <<>>]
StrVal(s) == [kind |-> "str", val |-> s]
ListVal(l) == [kind |-> "list", val |-> l]

(***************************************************************************)
(* Configuration                                                           *)
(***************************************************************************)
\* config.importDirectory (a path such as "/data/imports", abbreviated "/i")
importDirectory == <<"/", "i">>
\* config.statsDirectory = importDirectory + "/stats"
statsDirectory == importDirectory \o <<"/", "s">>
\* config.statsFile
statsFile == <<"h">>
\* config.statsCols
statsCols == <<"date", "time", "dataset", "filename", "file_size",
               "Imported_number", "Import_type", "name">>
\* oconfig.ontologiesImportDir, dbconfig.databasesImportDir
ontologiesImportDir == <<"o">>
databasesImportDir == <<"d">>
\* econfig.experimentsImportDirectory, econfig.experimentsDir
experimentsImportDirectory == importDirectory \o <<"/", "e">>
experimentsDir == <<"/", "x">>
\* config.version: the release the importer runs as
Versions == {<<"1", ".", "0">>}

(***************************************************************************)
(* Statistic records and frames                                            *)
(***************************************************************************)
RecA == <<"d1", "t1", "dsA", "fA", "10", "3", "entity", "A">>
RecB == <<"d2", "t2", "dsB", "fB", "20", "7", "relationships", "B">>
StatRecords == {RecA, RecB}

\* a pandas DataFrame: its column labels and its rows, each row a value per label
DataFrame(cols, rows) == [cols |-> cols, rows |-> rows]

\* pd.DataFrame.from_records(list(stats), columns=cols): field i of a record
\* goes to column cols[i]
FromRecordsSwapped(stats, cols) ==
    DataFrame(cols,
        [r \in 1..Len(stats) |->
            [c \in Range(cols) |->
                stats[r][Len(cols) + 1 - (CHOOSE i \in 1..Len(cols) : cols[i] = c)]]])
FromRecords(stats, cols) ==
    DataFrame(cols,
        [r \in 1..Len(stats) |->
            [c \in Range(cols) |-> stats[r][CHOOSE i \in 1..Len(cols) : cols[i] = c]]])

generateStatsDataFrame(stats) == FromRecords(stats, statsCols)

\* pd.DataFrame(columns=statsCols)
EmptyFrame(cols) == DataFrame(cols, <<>>)

(***************************************************************************)
(* getStatsName                                                            *)
(***************************************************************************)
getStatsNameOfVerbatim(v) == <<"s", "t", "a", "t", "s", "_">> \o v
getStatsNameOf(v) == <<"s", "t", "a", "t", "s", "_">> \o StrReplace(v, ".", "_")

(***************************************************************************)
(* The HDF store: the tables of the ledger file, by key.  pandas writes no *)
(* node for a frame of length zero when the format is 'table' or on append *)
(* (HDFStore._write_to_group), so a key is in the file only with rows.     *)
(***************************************************************************)
\* the rows stored under key, none when the file has no such table
RowsOf(tabs, key) == IF key \in DOMAIN tabs THEN tabs[key].rows ELSE <<>>

\* HDFStore.put(key, frame, format='table'): the table under key becomes frame
HDFPut(tabs, key, frame) ==
    IF frame.rows = <<>> THEN tabs
    ELSE [k \in DOMAIN tabs \cup {key} |-> IF k = key THEN frame ELSE tabs[k]]

\* HDFStore.get(key), hdf[key]: the frame stored under key, a KeyError when
\* the file has no such table
HDFGet(tabs, key) ==
    IF key \in DOMAIN tabs THEN [ok |-> TRUE, val |-> tabs[key]]
    ELSE [ok |-> FALSE, val |-> EmptyFrame(<<>>)]

\* HDFStore.append(key, frame) can be done: the frame has the table's columns
HDFAppendOk(tabs, key, frame) ==
    frame.rows # <<>> /\ key \in DOMAIN tabs => tabs[key].cols = frame.cols

\* HDFStore.append(key, frame): the rows of frame go after the rows stored
HDFAppendReplacing(tabs, key, frame) ==
    IF frame.rows = <<>> THEN tabs
    ELSE [k \in DOMAIN tabs \cup {key} |-> IF k = key THEN frame ELSE tabs[k]]
HDFAppend(tabs, key, frame) ==
    IF frame.rows = <<>> THEN tabs
    ELSE [k \in DOMAIN tabs \cup {key} |->
            IF k # key THEN tabs[k]
            ELSE DataFrame(frame.cols, RowsOf(tabs, key) \o frame.rows)]

(***************************************************************************)
(* The source tree of the experiments and the directory listing            *)
(***************************************************************************)
ProjP == <<"p">>
ProjQ == <<"q">>
DataA == <<"a">>
DataB == <<"b">>
\* the project folders under experimentsDir and the dataset folders of each
SourceTrees ==
    { [projects |-> <<ProjP, ProjQ>>,
       datasets |-> (ProjP :> <<DataA, DataB>>) @@ (ProjQ :> <<DataA>>)] }
\* the folders of the file system root: the import root and the source root
RootFolders == << <<"i">>, <<"x">> >>

\* a path with its trailing "/." components dropped
RECURSIVE Resolve(_)
Resolve(path) ==
    IF Len(path) > 2 /\ SubSeq(path, Len(path) - 1, Len(path)) = <<"/", ".">>
    THEN Resolve(SubSeq(path, 1, Len(path) - 2))
    ELSE path

\* utils.listDirectoryFolders(directory): the folders of a directory, an
\* error when the directory does not exist
listDirectoryFolders(tree, directory) ==
    LET d == Resolve(directory) IN
    IF d = experimentsDir THEN [ok |-> TRUE, val |-> tree.projects]
    ELSE IF \E p \in Range(tree.projects) : d = PathJoin(experimentsDir, p)
    THEN [ok |-> TRUE,
          val |-> tree.datasets[CHOOSE p \in Range(tree.projects) :
                                    d = PathJoin(experimentsDir, p)]]
    ELSE IF d = <<"/">> THEN [ok |-> TRUE, val |-> RootFolders]
    ELSE [ok |-> FALSE, val |-> <<>>]

(***************************************************************************)
(* State                                                                   *)
(***************************************************************************)
VARIABLES
    version,     \* config.version
    keys,        \* the keys getStatsName gave this release and the one before
    srcTree,     \* the folders under the experiments source root
    dirs,        \* the directories provisioned so far
    fileExists,  \* os.path.isfile(statsFile)
    tables,      \* the tables of the ledger file, by key
    handles,     \* the HDFStore handles open in the process
    pc,          \* the statement the orchestrator is at
    stack,       \* where the calls on the stack return to
    entry,       \* the entry point of the current top-level call
    calls,       \* top-level calls made so far
    loc,         \* parameters and locals of the functions on the stack
    dbUnits,     \* the units of the running Database Adapter call
    tasks,       \* the delayed experimentImport calls of the running Parallel
    log,         \* what the current top-level call has done so far
    genCalls,    \* eh.generateDatasetImports calls of the current top-level call
    pre,         \* the disk and the arguments when the current top-level call began
    written,     \* the rows the current top-level call gave to hdf.append, by key
    raised       \* an exception has been raised in the current top-level call

vars == <<version, keys, srcTree, dirs, fileExists, tables, handles, pc, stack, entry,
          calls, loc, dbUnits, tasks, log, genCalls, pre, written, raised>>

LocInit ==
    [fi |-> 1, ontologies |-> None, databases |-> None, projects |-> None,
     n_jobs |-> 1, stats |-> <<>>, statsDf |-> EmptyFrame(<<>>),
     statsName |-> None, hdf |-> "unset"]

\* nothing has run: an empty disk, an idle process
Fresh ==
    /\ keys = {}
    /\ srcTree \in SourceTrees
    /\ dirs = {}
    /\ fileExists = FALSE
    /\ tables = EmptyFcn
    /\ handles = 0
    /\ pc = "idle"
    /\ stack = <<>>
    /\ entry = "none"
    /\ calls = 0
    /\ loc = LocInit
    /\ dbUnits = EmptyFcn
    /\ tasks = <<>>
    /\ log = <<>>
    /\ genCalls = EmptyFcn
    /\ pre = [fileExists |-> FALSE, tables |-> EmptyFcn, dirs |-> {}, args |-> LocInit]
    /\ written = EmptyFcn
    /\ raised = FALSE

Init == version \in Versions /\ Fresh

getStatsName == getStatsNameOf(version)

(***************************************************************************)
(* Control flow of the orchestrator process                                *)
(***************************************************************************)
\* a call: the callee runs, then the caller goes on at ret
Call(f, ret) == pc' = f /\ stack' = <<ret>> \o stack /\ UNCHANGED raised
\* a normal return
Return == pc' = Head(stack) /\ stack' = Tail(stack) /\ UNCHANGED raised
\* an exception nothing catches: the process ends
RaiseSwallowed == pc' = Head(stack) /\ stack' = Tail(stack) /\ raised' = TRUE
Raise == pc' = "error" /\ stack' = <<>> /\ raised' = TRUE

Logged(e) == log' = Append(log, e)

\* utils.checkDirectory(path): the directory exists afterwards
checkDirectory(d, path) == d \cup {path}

(***************************************************************************)
(* The ledger: setupStats, createEmptyStats, loadStats, writeStats         *)
(***************************************************************************)
\* the test of setupStats: the ledger has to be created
setupStatsNeededAlways(d, isfile) == TRUE
setupStatsNeeded(d, isfile) == statsDirectory \notin d \/ ~isfile

setupStats ==
    \/ /\ pc = "setupStats"
       /\ IF setupStatsNeeded(dirs, fileExists)
          THEN \/ /\ dirs' = dirs \cup {statsDirectory}
                  /\ Call("createEmptyStats", "setupStats_end")
               \/ /\ statsDirectory \notin dirs   \* os.makedirs fails
                  /\ Raise
                  /\ UNCHANGED dirs
          ELSE /\ pc' = "setupStats_end"
               /\ UNCHANGED <<stack, raised, dirs>>
       /\ UNCHANGED <<version, keys, srcTree, fileExists, tables, handles, entry, calls,
                      loc, dbUnits, tasks, log, genCalls, pre, written>>
    \/ /\ pc = "setupStats_end"
       /\ Return
       /\ Logged("setupStats:ret")
       /\ UNCHANGED <<version, keys, srcTree, dirs, fileExists, tables, handles, entry,
                      calls, loc, dbUnits, tasks, genCalls, pre, written>>

\* hdf.close(): one handle fewer is open
HDFCloseLeaking(h) == h
HDFClose(h) == h - 1

createEmptyStats ==
    \/ /\ pc = "createEmptyStats"          \* hdf = pd.HDFStore(statsFile)
       /\ \/ /\ fileExists' = TRUE
             /\ handles' = handles + 1
             /\ pc' = "createEmptyStats_put"
             /\ UNCHANGED <<stack, raised>>
          \/ /\ Raise
             /\ UNCHANGED <<fileExists, handles>>
       /\ UNCHANGED <<version, keys, srcTree, dirs, tables, entry, calls, loc, dbUnits,
                      tasks, log, genCalls, pre, written>>
    \/ /\ pc = "createEmptyStats_put"      \* hdf.put(statsName, statsDf, ...)
       /\ tables' = HDFPut(tables, getStatsName, EmptyFrame(statsCols))
       /\ pc' = "createEmptyStats_close"
       /\ UNCHANGED <<version, keys, srcTree, dirs, fileExists, handles, stack, raised, entry,
                      calls, loc, dbUnits, tasks, log, genCalls, pre, written>>
    \/ /\ pc = "createEmptyStats_close"    \* hdf.close()
       /\ handles' = HDFClose(handles)
       /\ Return
       /\ UNCHANGED <<version, keys, srcTree, dirs, fileExists, tables, entry, calls,
                      loc, dbUnits, tasks, log, genCalls, pre, written>>

\* loadStats(statsFile): a handle on the ledger file, None when it is no file
loadStatsAlways(isfile) == "open"
loadStats(isfile) == IF isfile THEN "open" ELSE "None"

\* the key writeStats stores under
writeStatsKeyDefault(statsName, default) == default
writeStatsKey(statsName, default) ==
    IF statsName.kind = "None" THEN default ELSE statsName.val

writeStats ==
    \/ /\ pc = "writeStats"                \* hdf = loadStats(statsFile)
       /\ loc' = [loc EXCEPT !.hdf = loadStats(fileExists)]
       /\ handles' = IF loadStats(fileExists) = "open" THEN handles + 1 ELSE handles
       /\ fileExists' = (fileExists \/ loadStats(fileExists) = "open")
       /\ pc' = "writeStats_append"
       /\ UNCHANGED <<version, keys, srcTree, dirs, tables, stack, raised, entry, calls, dbUnits,
                      tasks, log, genCalls, pre, written>>
    \/ /\ pc = "writeStats_append"         \* hdf.append(statsName, statsDf, ...)
       /\ LET key == writeStatsKey(loc.statsName, getStatsName) IN
          IF loc.hdf = "open" /\ HDFAppendOk(tables, key, loc.statsDf)
          THEN /\ tables' = HDFAppend(tables, key, loc.statsDf)
               /\ written' = [k \in DOMAIN written \cup {key} |->
                                 (IF k \in DOMAIN written THEN written[k] ELSE <<>>)
                                 \o (IF k = key THEN loc.statsDf.rows ELSE <<>>)]
               /\ pc' = "writeStats_close"
               /\ Logged("append")
               /\ UNCHANGED <<stack, raised>>
          ELSE /\ Raise
               /\ UNCHANGED <<tables, log, written>>
       /\ UNCHANGED <<version, keys, srcTree, dirs, fileExists, handles, entry, calls,
                      loc, dbUnits, tasks, genCalls, pre>>
    \/ /\ pc = "writeStats_close"          \* hdf.close()
       /\ handles' = HDFClose(handles)
       /\ loc' = [loc EXCEPT !.hdf = "closed"]
       /\ Return
       /\ UNCHANGED <<version, keys, srcTree, dirs, fileExists, tables, entry, calls,
                      dbUnits, tasks, log, genCalls, pre, written>>

(***************************************************************************)
(* ontologiesImport                                                        *)
(***************************************************************************)
\* what the Ontology Adapter can return: no record, one, or several
AdapterStats == {<<>>, <<RecA>>, <<RecB, RecA>>}

ontologiesImport ==
    \/ /\ pc = "ontologiesImport"          \* utils.checkDirectory(...)
       /\ Logged("ontologiesImport")
       /\ \/ /\ dirs' = checkDirectory(dirs, PathJoin(importDirectory, ontologiesImportDir))
             /\ pc' = "ontologiesImport_gen"
             /\ UNCHANGED <<stack, raised>>
          \/ /\ Raise
             /\ UNCHANGED dirs
       /\ UNCHANGED <<version, keys, srcTree, fileExists, tables, handles, entry, calls,
                      loc, dbUnits, tasks, genCalls, pre, written>>
    \/ /\ pc = "ontologiesImport_gen"      \* stats = oh.generateGraphFiles(...)
       /\ \/ /\ \E st \in AdapterStats : loc' = [loc EXCEPT !.stats = st]
             /\ pc' = "ontologiesImport_write"
             /\ UNCHANGED <<stack, raised>>
          \/ /\ Raise
             /\ UNCHANGED loc
       /\ UNCHANGED <<version, keys, srcTree, dirs, fileExists, tables, handles, entry,
                      calls, dbUnits, tasks, log, genCalls, pre, written>>
    \/ /\ pc = "ontologiesImport_write"    \* writeStats(generateStatsDataFrame(stats))
       /\ loc' = [loc EXCEPT !.statsDf = generateStatsDataFrame(loc.stats),
                             !.statsName = None]
       /\ Call("writeStats", "ontologiesImport_end")
       /\ UNCHANGED <<version, keys, srcTree, dirs, fileExists, tables, handles, entry,
                      calls, dbUnits, tasks, log, genCalls, pre, written>>
    \/ /\ pc = "ontologiesImport_end"
       /\ Logged("ontologiesImport:ret")
       /\ Return
       /\ UNCHANGED <<version, keys, srcTree, dirs, fileExists, tables, handles, entry,
                      calls, loc, dbUnits, tasks, genCalls, pre, written>>

(***************************************************************************)
(* databasesImport and the Database Adapter                                *)
(***************************************************************************)
\* the databases of the configuration, and what the adapter returns for each
Databases == <<"db1", "db2">>
DbStats(u) == IF u = "db1" THEN <<RecA>> ELSE <<RecB>>

DbRunning == {u \in DOMAIN dbUnits : dbUnits[u] = "running"}

\* where databasesImport goes once the adapter call is made
databasesImportEager == "databasesImport_write"
databasesImportAfterCall == "databasesImport_wait"

databasesImport ==
    \/ /\ pc = "databasesImport"           \* utils.checkDirectory(...)
       /\ Logged("databasesImport")
       /\ \/ /\ dirs' = checkDirectory(dirs, PathJoin(importDirectory, databasesImportDir))
             /\ pc' = "databasesImport_gen"
             /\ UNCHANGED <<stack, raised>>
          \/ /\ Raise
             /\ UNCHANGED dirs
       /\ UNCHANGED <<version, keys, srcTree, fileExists, tables, handles, entry, calls,
                      loc, dbUnits, tasks, genCalls, pre, written>>
    \/ /\ pc = "databasesImport_gen"       \* stats = dh.generateGraphFiles(...): called
       /\ dbUnits' = [u \in Range(IF loc.databases.kind = "None" THEN Databases
                                  ELSE loc.databases.val) |-> "queued"]
       /\ loc' = [loc EXCEPT !.stats = <<>>]
       /\ pc' = databasesImportAfterCall
       /\ UNCHANGED <<version, keys, srcTree, dirs, fileExists, tables, handles, stack, raised,
                      entry, calls, tasks, log, genCalls, pre, written>>
    \/ /\ pc = "databasesImport_wait"      \* ... returns when its units are done
       /\ \A u \in DOMAIN dbUnits : dbUnits[u] = "done"
       /\ pc' = "databasesImport_write"
       /\ UNCHANGED <<version, keys, srcTree, dirs, fileExists, tables, handles, stack, raised,
                      entry, calls, loc, dbUnits, tasks, log, genCalls, pre, written>>
    \/ /\ pc = "databasesImport_write"     \* writeStats(generateStatsDataFrame(stats))
       /\ loc' = [loc EXCEPT !.statsDf = generateStatsDataFrame(loc.stats),
                             !.statsName = None]
       /\ Call("writeStats", "databasesImport_end")
       /\ UNCHANGED <<version, keys, srcTree, dirs, fileExists, tables, handles, entry,
                      calls, dbUnits, tasks, log, genCalls, pre, written>>
    \/ /\ pc = "databasesImport_end"
       /\ Logged("databasesImport:ret")
       /\ Return
       /\ UNCHANGED <<version, keys, srcTree, dirs, fileExists, tables, handles, entry,
                      calls, loc, dbUnits, tasks, genCalls, pre, written>>

\* one unit of the Database Adapter: at most n_jobs run at a time, they end
\* in any order, and a unit that raises makes the adapter call raise
DbUnitStart(u) ==
    /\ pc \in {"databasesImport_wait", "databasesImport_write", "writeStats",
               "writeStats_append", "writeStats_close", "databasesImport_end"}
    /\ dbUnits[u] = "queued"
    /\ Cardinality(DbRunning) < loc.n_jobs
    /\ dbUnits' = [dbUnits EXCEPT ![u] = "running"]
    /\ UNCHANGED <<version, keys, srcTree, dirs, fileExists, tables, handles, pc, stack, raised,
                   entry, calls, loc, tasks, log, genCalls, pre, written>>

DbUnitEnd(u) ==
    /\ pc \in {"databasesImport_wait", "databasesImport_write", "writeStats",
               "writeStats_append", "writeStats_close", "databasesImport_end"}
    /\ dbUnits[u] = "running"
    /\ \/ /\ dbUnits' = [dbUnits EXCEPT ![u] = "done"]
          /\ loc' = [loc EXCEPT !.stats = loc.stats \o DbStats(u)]
          /\ UNCHANGED <<pc, stack, raised>>
       \/ /\ pc = "databasesImport_wait"
          /\ dbUnits' = [v \in DOMAIN dbUnits |->
                            IF v = u THEN "failed"
                            ELSE IF dbUnits[v] = "running" THEN "killed"
                            ELSE dbUnits[v]]
          /\ Raise
          /\ UNCHANGED loc
    /\ UNCHANGED <<version, keys, srcTree, dirs, fileExists, tables, handles, entry,
                   calls, tasks, log, genCalls, pre, written>>

(***************************************************************************)
(* experimentsImport, the Parallel call and experimentImport               *)
(***************************************************************************)
\* the projects of (delayed(experimentImport)(..., project) for project in projects)
delayedCallsButFirst(projects) == Tail(Iterate(projects))
delayedCalls(projects) == Iterate(projects)

\* the first statement of experimentImport
experimentImportEntryListing == "list"
experimentImportEntry == "checkProject"

\* where experimentsImport goes when the Parallel call has returned: it has
\* no statement after it
experimentsImportAggregating == "databasesImport_write"
experimentsImportAfterJoin == "experimentsImport_end"

\* Parallel(n_jobs=1) runs the calls in the calling process, so that the
\* first exception ends the loop over the calls; a pool goes on dispatching
\* until the exception is seen
DispatchAllowedAlways(n_jobs, failed) == TRUE
DispatchAllowed(n_jobs, failed) == n_jobs = 1 => failed = {}

TaskRunning(t) == t.st \in {"checkProject", "list", "checkDataset", "generate"}
Running == {i \in 1..Len(tasks) : TaskRunning(tasks[i])}
Failed == {i \in 1..Len(tasks) : tasks[i].st = "failed"}
Queued == {i \in 1..Len(tasks) : tasks[i].st = "queued"}

GenCount(pair) == IF pair \in DOMAIN genCalls THEN genCalls[pair] ELSE 0
GenAdd(pair) ==
    [x \in DOMAIN genCalls \cup {pair} |-> IF x = pair THEN GenCount(pair) + 1
                                           ELSE genCalls[x]]

experimentsImport ==
    \/ /\ pc = "experimentsImport"         \* utils.checkDirectory(...)
       /\ Logged("experimentsImport")
       /\ \/ /\ dirs' = checkDirectory(dirs, experimentsImportDirectory)
             /\ pc' = "experimentsImport_resolve"
             /\ UNCHANGED <<stack, raised>>
          \/ /\ Raise
             /\ UNCHANGED dirs
       /\ UNCHANGED <<version, keys, srcTree, fileExists, tables, handles, entry, calls,
                      loc, dbUnits, tasks, genCalls, pre, written>>
    \/ /\ pc = "experimentsImport_resolve" \* if projects is None: projects = ...
       /\ IF loc.projects.kind = "None"
          THEN LET l == listDirectoryFolders(srcTree, experimentsDir) IN
               IF l.ok
               THEN /\ loc' = [loc EXCEPT !.projects = ListVal(l.val)]
                    /\ pc' = "experimentsImport_parallel"
                    /\ UNCHANGED <<stack, raised>>
               ELSE /\ Raise
                    /\ UNCHANGED loc
          ELSE /\ pc' = "experimentsImport_parallel"
               /\ UNCHANGED <<loc, stack, raised>>
       /\ UNCHANGED <<version, keys, srcTree, dirs, fileExists, tables, handles, entry,
                      calls, dbUnits, tasks, log, genCalls, pre, written>>
    \/ /\ pc = "experimentsImport_parallel" \* Parallel(n_jobs=n_jobs)(...): called
       /\ tasks' = [i \in 1..Len(delayedCalls(loc.projects)) |->
                       [project |-> delayedCalls(loc.projects)[i], st |-> "queued",
                        datasets |-> <<>>, k |-> 0]]
       /\ pc' = "experimentsImport_join"
       /\ UNCHANGED <<version, keys, srcTree, dirs, fileExists, tables, handles, stack, raised,
                      entry, calls, loc, dbUnits, log, genCalls, pre, written>>
    \/ /\ pc = "experimentsImport_join"    \* ... returns when every call is done,
       /\ \/ /\ \A i \in 1..Len(tasks) : tasks[i].st = "done"
             /\ pc' = experimentsImportAfterJoin
             /\ UNCHANGED <<stack, raised, tasks>>
          \/ /\ Failed # {}                \* ... or raises what a call raised
             /\ tasks' = [i \in 1..Len(tasks) |->
                             IF TaskRunning(tasks[i])
                             THEN [tasks[i] EXCEPT !.st = "killed"] ELSE tasks[i]]
             /\ Raise
       /\ UNCHANGED <<version, keys, srcTree, dirs, fileExists, tables, handles, entry,
                      calls, loc, dbUnits, log, genCalls, pre, written>>
    \/ /\ pc = "experimentsImport_end"
       /\ Logged("experimentsImport:ret")
       /\ Return
       /\ UNCHANGED <<version, keys, srcTree, dirs, fileExists, tables, handles, entry,
                      calls, loc, dbUnits, tasks, genCalls, pre, written>>

\* Parallel starts the delayed calls in order, at most n_jobs at a time; with
\* n_jobs = 1 they run one after another in the calling process, so that
\* nothing starts after a call has raised
ParallelDispatch(i) ==
    /\ pc = "experimentsImport_join"
    /\ i \in Queued
    /\ \A j \in Queued : i <= j
    /\ Cardinality(Running) < loc.n_jobs
    /\ DispatchAllowed(loc.n_jobs, Failed)
    /\ tasks' = [tasks EXCEPT ![i].st = experimentImportEntry]
    /\ UNCHANGED <<version, keys, srcTree, dirs, fileExists, tables, handles, pc, stack, raised,
                   entry, calls, loc, dbUnits, log, genCalls, pre, written>>

\* the index of the dataset the loop of experimentImport takes after the k-th
NextDataset(k) == k + 1

\* experimentImport(importDirectory, experimentsDirectory, project), one
\* statement at a time, as delayed call i of the Parallel
experimentImport(i) ==
    LET t == tasks[i]
        projectPath == PathJoin(experimentsImportDirectory, t.project)
        projectDirectory == PathJoin(experimentsDir, t.project)
        Fail == tasks' = [tasks EXCEPT ![i].st = "failed"]
        Loop(k, ds) == IF k <= Len(ds) THEN "checkDataset" ELSE "done"
    IN
    /\ pc = "experimentsImport_join"
    /\ \/ /\ t.st = "checkProject"         \* utils.checkDirectory(projectPath)
          /\ \/ /\ dirs' = checkDirectory(dirs, projectPath)
                /\ tasks' = [tasks EXCEPT ![i].st = "list"]
             \/ /\ Fail
                /\ UNCHANGED dirs
          /\ UNCHANGED genCalls
       \/ /\ t.st = "list"                 \* datasets = utils.listDirectoryFolders(...)
          /\ LET l == listDirectoryFolders(srcTree, projectDirectory) IN
             IF l.ok
             THEN tasks' = [tasks EXCEPT ![i].datasets = l.val,
                                         ![i].k = NextDataset(0),
                                         ![i].st = Loop(NextDataset(0), l.val)]
             ELSE Fail
          /\ UNCHANGED <<dirs, genCalls>>
       \/ /\ t.st = "checkDataset"         \* utils.checkDirectory(datasetPath)
          /\ \/ /\ dirs' = checkDirectory(dirs, PathJoin(projectPath, t.datasets[t.k]))
                /\ tasks' = [tasks EXCEPT ![i].st = "generate"]
             \/ /\ Fail
                /\ UNCHANGED dirs
          /\ UNCHANGED genCalls
       \/ /\ t.st = "generate"             \* eh.generateDatasetImports(project, dataset)
          /\ genCalls' = GenAdd(<<t.project, t.datasets[t.k]>>)
          /\ \/ tasks' = [tasks EXCEPT ![i].k = NextDataset(t.k),
                                       ![i].st = Loop(NextDataset(t.k), t.datasets)]
             \/ Fail
          /\ UNCHANGED dirs
    /\ UNCHANGED <<version, keys, srcTree, fileExists, tables, handles, pc, stack, raised, entry,
                   calls, loc, dbUnits, log, pre, written>>

(***************************************************************************)
(* fullImport                                                              *)
(***************************************************************************)
\* n_jobs of the databases and the experiments stage
FullImportJobs == 4

\* the statements of fullImport, in order
fullImportStagesSwapped ==
    <<"checkDirectory", "setupStats", "databasesImport", "ontologiesImport",
      "experimentsImport">>
fullImportStagesNoSetup ==
    <<"checkDirectory", "ontologiesImport", "databasesImport", "experimentsImport">>
fullImportStages ==
    <<"checkDirectory", "setupStats", "ontologiesImport", "databasesImport",
      "experimentsImport">>

\* experimentsImport(importDirectory, n_jobs=4): the first positional
\* parameter of experimentsImport is projects
fullImportExperimentsArgs ==
    [projects |-> StrVal(importDirectory), n_jobs |-> FullImportJobs]

fullImport ==
    /\ pc = "fullImport"
    /\ IF loc.fi > Len(fullImportStages)
       THEN /\ Return
            /\ UNCHANGED <<dirs, loc, log>>
       ELSE LET s == fullImportStages[loc.fi]
                l == [loc EXCEPT !.fi = loc.fi + 1]
            IN
            \/ /\ s = "checkDirectory"     \* utils.checkDirectory(importDirectory)
               /\ Logged("checkDirectory")
               /\ \/ /\ dirs' = checkDirectory(dirs, importDirectory)
                     /\ loc' = l
                     /\ UNCHANGED <<pc, stack, raised>>
                  \/ /\ Raise
                     /\ UNCHANGED <<dirs, loc>>
            \/ /\ s = "setupStats"
               /\ Logged("setupStats")
               /\ loc' = l
               /\ Call("setupStats", "fullImport")
               /\ UNCHANGED dirs
            \/ /\ s = "ontologiesImport"   \* ontologiesImport(importDirectory)
               /\ loc' = [l EXCEPT !.ontologies = None]
               /\ Call("ontologiesImport", "fullImport")
               /\ UNCHANGED <<dirs, log>>
            \/ /\ s = "databasesImport"    \* databasesImport(importDirectory, n_jobs=4)
               /\ loc' = [l EXCEPT !.databases = None, !.n_jobs = FullImportJobs]
               /\ Call("databasesImport", "fullImport")
               /\ UNCHANGED <<dirs, log>>
            \/ /\ s = "experimentsImport"  \* experimentsImport(importDirectory, n_jobs=4)
               /\ loc' = [l EXCEPT !.projects = fullImportExperimentsArgs.projects,
                                   !.n_jobs = fullImportExperimentsArgs.n_jobs]
               /\ Call("experimentsImport", "fullImport")
               /\ UNCHANGED <<dirs, log>>
    /\ UNCHANGED <<version, keys, srcTree, fileExists, tables, handles, entry, calls,
                   dbUnits, tasks, genCalls, pre, written>>

(***************************************************************************)
(* The callers of the importer                                             *)
(***************************************************************************)
\* a key other than the one of the release, for writeStats(statsDf, statsName)
OtherName == <<"k">>

\* a top-level call, made when the process is idle or, by a new process
\* (which holds no handle), after the process has ended with an error

BeginWithin(name, l, max) ==
    /\ pc \in {"idle", "error"}
    /\ calls < max
    /\ calls' = calls + 1
    /\ entry' = name
    /\ pc' = name
    /\ stack' = <<"idle">>
    /\ loc' = l
    /\ log' = <<>>
    /\ genCalls' = EmptyFcn
    /\ tasks' = <<>>
    /\ dbUnits' = EmptyFcn
    /\ pre' = [fileExists |-> fileExists, tables |-> tables, dirs |-> dirs, args |-> l]
    /\ written' = EmptyFcn
    /\ raised' = FALSE
    /\ handles' = IF pc = "error" THEN 0 ELSE handles
    /\ UNCHANGED <<version, keys, srcTree, dirs, fileExists, tables>>

Begin(name, l) == BeginWithin(name, l, MaxCalls)

CallFullImport == Begin("fullImport", LocInit)

CallSetupStats == Begin("setupStats", LocInit)

CallWriteStats ==
    \E st \in AdapterStats, nm \in {None, StrVal(OtherName)} :
        Begin("writeStats", [LocInit EXCEPT !.stats = st,
                                            !.statsDf = generateStatsDataFrame(st),
                                            !.statsName = nm])

CallOntologiesImport == Begin("ontologiesImport", LocInit)

CallDatabasesImport ==
    \E dbs \in {None, ListVal(<<"db2">>)}, n \in 1..MaxJobs :
        Begin("databasesImport", [LocInit EXCEPT !.databases = dbs, !.n_jobs = n])

CallExperimentsImport ==
    \E ps \in {None, ListVal(<<ProjP>>), ListVal(<<ProjQ, ProjP>>)}, n \in 1..MaxJobs :
        Begin("experimentsImport", [LocInit EXCEPT !.projects = ps, !.n_jobs = n])

Next ==
    \/ CallFullImport
    \/ CallSetupStats
    \/ CallWriteStats
    \/ CallOntologiesImport
    \/ CallDatabasesImport
    \/ CallExperimentsImport
    \/ fullImport
    \/ setupStats
    \/ createEmptyStats
    \/ writeStats
    \/ ontologiesImport
    \/ databasesImport
    \/ \E u \in DOMAIN dbUnits : DbUnitStart(u)
    \/ \E u \in DOMAIN dbUnits : DbUnitEnd(u)
    \/ experimentsImport
    \/ \E i \in 1..Len(tasks) : ParallelDispatch(i)
    \/ \E i \in 1..Len(tasks) : experimentImport(i)

Spec == Init /\ [][Next]_vars

(***************************************************************************)
(* The key of the ledger from one release to the next                      *)
(***************************************************************************)
\* the characters of a version string
VersionAlphabet == {"0", "1", ".", "_"}
\* the versions of the testable properties of the ledger
ExampleVersions == {<<"1", ".", "0">>, <<"2", ".", "3", ".", "1">>}
\* what config.version can be
VersionStrings ==
    UNION {[1..n -> VersionAlphabet] : n \in 1..MaxVersionLen} \cup ExampleVersions

\* statsName = getStatsName(), as setupStats and writeStats do
getStatsNameCall ==
    /\ pc = "idle"
    /\ keys' = keys \cup {<<version, getStatsName>>}
    /\ UNCHANGED <<version, srcTree, dirs, fileExists, tables, handles, pc, stack,
                   entry, calls, loc, dbUnits, tasks, log, genCalls, pre, written,
                   raised>>

\* the next release is installed: config.version is one of V
Release(V) ==
    /\ pc \in {"idle", "error"}
    /\ \E v \in V \ {version} : version' = v
    /\ keys' = {k \in keys : k[1] = version}
    /\ UNCHANGED <<srcTree, dirs, fileExists, tables, handles, pc, stack, entry,
                   calls, loc, dbUnits, tasks, log, genCalls, pre, written, raised>>

KeyInit == version \in VersionStrings /\ Fresh

KeyNext ==
    \/ getStatsNameCall
    \/ Release(VersionStrings)

SpecKey == KeyInit /\ [][KeyNext]_vars

(***************************************************************************)
(* The ledger over two releases: setupStats and writeStats called by the   *)
(* processes of one release, then of the next, on the same ledger file     *)
(***************************************************************************)
\* config.version of the two releases
LedgerVersions == {<<"1", ".", "0">>, <<"1", ".", "1">>}

LedgerCallSetupStats == BeginWithin("setupStats", LocInit, MaxLedgerCalls)

LedgerCallWriteStats ==
    \E st \in AdapterStats, nm \in {None, StrVal(OtherName)} :
        BeginWithin("writeStats",
                    [LocInit EXCEPT !.stats = st,
                                    !.statsDf = generateStatsDataFrame(st),
                                    !.statsName = nm],
                    MaxLedgerCalls)

LedgerInit == version \in LedgerVersions /\ Fresh

LedgerNext ==
    \/ LedgerCallSetupStats
    \/ LedgerCallWriteStats
    \/ Release(LedgerVersions)
    \/ setupStats
    \/ createEmptyStats
    \/ writeStats

SpecLedger == LedgerInit /\ [][LedgerNext]_vars

(***************************************************************************)
(* Properties                                                              *)
(***************************************************************************)
\* the key of the release
Key == getStatsName

Last(s) == s[Len(s)]

\* what a complete fullImport does, in order
FullImportOrder ==
    <<"checkDirectory", "setupStats", "setupStats:ret",
      "ontologiesImport", "append", "ontologiesImport:ret",
      "databasesImport", "append", "databasesImport:ret",
      "experimentsImport", "experimentsImport:ret">>

\* C1: in every run of fullImport the root directory is provisioned, then
\* setupStats runs and returns, then ontologiesImport, then databasesImport,
\* then experimentsImport, each starting after the one before has returned,
\* and a ledger append only comes after setupStats has returned.
C1_FullImportOrder ==
    entry = "fullImport" => IsPrefix(log, FullImportOrder)

\* a run of fullImport that has begun its last stage
C1_Witness ==
    entry = "fullImport" /\ log = SubSeq(FullImportOrder, 1, 10)

\* C2: the projects fullImport hands to experimentImport are exactly the
\* project folders under the experiments source root.
C2_FullImportProjects ==
    (entry = "fullImport" /\ pc = "experimentsImport_join")
        => /\ {tasks[i].project : i \in 1..Len(tasks)} = Range(srcTree.projects)
           /\ loc.n_jobs = FullImportJobs

\* C3: the ledger is append-only: a step never removes the ledger file or a
\* table and leaves the rows stored as a prefix of the rows stored after it;
\* a writeStats puts the rows of its frame after the rows already there, so
\* that a table holds the rows it had before the call followed by the rows
\* of the frames appended since, in the order of the appends.
C3_AppendOnly ==
    [][ /\ fileExists => fileExists'
        /\ \A k \in DOMAIN tables :
              /\ k \in DOMAIN tables'
              /\ IsPrefix(tables[k].rows, tables'[k].rows)
        /\ (pc = "writeStats_append" /\ pc' = "writeStats_close")
              => LET k == writeStatsKey(loc.statsName, Key) IN
                 RowsOf(tables', k) = RowsOf(tables, k) \o loc.statsDf.rows
        /\ \A k \in DOMAIN tables' \cup DOMAIN written' :
              RowsOf(tables', k) = RowsOf(pre'.tables, k) \o
                    (IF k \in DOMAIN written' THEN written'[k] ELSE <<>>)
      ]_vars

\* a second append of a call to a table that had rows before the call
C3_Witness ==
    /\ pc = "writeStats_close"
    /\ Count(log, "append") = 2
    /\ RowsOf(pre.tables, Key) # <<>>
    /\ Len(RowsOf(tables, Key)) >= Len(RowsOf(pre.tables, Key)) + 3

C5_WriteStatsNeedsLedger ==
    (entry = "writeStats" /\ ~pre.fileExists)
        => /\ ~fileExists
           /\ tables = pre.tables
           /\ written = EmptyFcn
           /\ handles = 0
           /\ pc \in {"writeStats", "writeStats_append", "error"}

\* writeStats of a frame with rows has failed for want of a ledger
C5_Witness ==
    /\ entry = "writeStats"
    /\ ~pre.fileExists
    /\ pc = "error"
    /\ loc.statsDf.rows # <<>>

\* C6: with a ledger, a call of ontologiesImport or databasesImport whose
\* adapter returned N records has, when it returns, appended N rows to the
\* table of the release: the rows before the call, then one row per record,
\* in the order returned, each field in its column; other tables are as before.
C6_ImportAppendsRecords ==
    (entry \in {"ontologiesImport", "databasesImport"} /\ pc = "idle" /\ pre.fileExists)
        => LET old == RowsOf(pre.tables, Key)
               new == RowsOf(tables, Key)
               N == Len(loc.stats)
           IN /\ Len(new) = Len(old) + N
              /\ SubSeq(new, 1, Len(old)) = old
              /\ \A j \in 1..N :
                    /\ DOMAIN new[Len(old) + j] = Range(statsCols)
                    /\ \A c \in 1..Len(statsCols) :
                          new[Len(old) + j][statsCols[c]] = loc.stats[j][c]
              /\ \A k \in (DOMAIN tables \cup DOMAIN pre.tables) \ {Key} :
                    RowsOf(tables, k) = RowsOf(pre.tables, k)

\* databasesImport has returned, its second database having ended first
C6_Witness ==
    /\ entry = "databasesImport"
    /\ pc = "idle"
    /\ pre.fileExists
    /\ loc.stats = <<RecB, RecA>>

\* C7: experimentsImport called without a project list never invokes the
\* adapter twice for a pair nor for anything but a dataset of a project of
\* the source tree, and when it returns it has invoked the adapter once for
\* every such pair and provisioned <project>/<dataset> for it.
C7_OncePerDataset ==
    (entry = "experimentsImport" /\ pre.args.projects.kind = "None")
        => /\ \A pair \in DOMAIN genCalls :
                 /\ genCalls[pair] = 1
                 /\ pair[1] \in Range(srcTree.projects)
                 /\ pair[2] \in Range(srcTree.datasets[pair[1]])
           /\ pc = "idle" =>
                 \A p \in Range(srcTree.projects) :
                     \A d \in Range(srcTree.datasets[p]) :
                         /\ GenCount(<<p, d>>) = 1
                         /\ PathJoin(PathJoin(experimentsImportDirectory, p), d) \in dirs

\* a parallel experimentsImport over the whole tree has returned
C7_Witness ==
    /\ entry = "experimentsImport"
    /\ pre.args.projects.kind = "None"
    /\ pc = "idle"
    /\ loc.n_jobs > 1
    /\ Len(tasks) > 1

\* C8: the ledger is appended to only by writeStats in the orchestrator,
\* with no unit queued or running; databasesImport goes on to its append
\* only with every database done, experimentsImport to its return only with
\* every delayed call done; a call of ontologiesImport or databasesImport
\* appends at most once, experimentsImport never.
C8_JoinBeforeAppend ==
    [][ /\ (Len(log') > Len(log) /\ Last(log') = "append")
              => /\ pc = "writeStats_append"
                 /\ DbRunning = {} /\ Running = {}
                 /\ \A u \in DOMAIN dbUnits : dbUnits[u] = "done"
        /\ tables' # tables => pc = "writeStats_append"
        /\ pc' = "databasesImport_write"
              => \A u \in DOMAIN dbUnits' : dbUnits'[u] = "done"
        /\ pc' = "experimentsImport_end"
              => \A i \in 1..Len(tasks') : tasks'[i].st = "done"
        /\ entry' \in {"ontologiesImport", "databasesImport"}
              => Count(log', "append") <= 1
        /\ entry' = "experimentsImport" => Count(log', "append") = 0
      ]_vars

\* databasesImport has appended what two units running at once returned
C8_Witness ==
    /\ entry = "databasesImport"
    /\ pc = "writeStats_close"
    /\ loc.n_jobs = 2
    /\ Len(loc.stats) = 2

\* C9: once a stage of fullImport has raised, the run is over: it is in its
\* error state, what it did is a prefix of the fixed order (so the stage
\* that failed before its append appended nothing), the table holds the rows
\* from before the run and the rows appended before the error, and the only
\* step left is a new top-level call.
C9_ErrorStopsRun ==
    [][ /\ (entry' = "fullImport" /\ raised')
              => /\ pc' = "error" /\ stack' = <<>>
                 /\ IsPrefix(log', FullImportOrder)
                 /\ RowsOf(tables', Key) = RowsOf(pre'.tables, Key) \o
                        (IF Key \in DOMAIN written' THEN written'[Key] ELSE <<>>)
                 /\ Len(IF Key \in DOMAIN written' THEN written'[Key] ELSE <<>>) > 0
                        => Count(log', "append") > 0
        /\ (entry = "fullImport" /\ raised) => calls' = calls + 1
      ]_vars

\* fullImport has failed in its databases stage, the rows of the ontologies
\* stage being in the ledger
C9_Witness ==
    /\ entry = "fullImport"
    /\ raised
    /\ log = SubSeq(FullImportOrder, 1, 7)
    /\ RowsOf(tables, Key) # <<>>
    /\ Len(RowsOf(tables, Key)) > Len(RowsOf(pre.tables, Key))

\* C10: setupStats called when the ledger file exists changes nothing: it
\* does not reach createEmptyStats, opens no handle, and the file, every
\* table and the directories stay as they were; in fullImport the ledger is
\* as it was until the first append.
C10_SetupStatsIdempotent ==
    /\ (entry \in {"setupStats", "fullImport"} /\ pre.fileExists)
          => /\ pc \notin {"createEmptyStats", "createEmptyStats_put",
                           "createEmptyStats_close"}
             /\ fileExists
             /\ Count(log, "append") = 0 => tables = pre.tables
    /\ (entry = "setupStats" /\ pre.fileExists)
          => /\ tables = pre.tables
             /\ dirs = pre.dirs
             /\ handles = 0
             /\ ~raised

\* setupStats has returned on a ledger that held rows
C10_Witness ==
    /\ entry = "setupStats"
    /\ pre.fileExists
    /\ pc = "idle"
    /\ RowsOf(tables, Key) # <<>>

\* C11: when setupStats has returned on a ledger path that never existed,
\* reading the ledger under the key of the release gives a table of zero
\* rows whose columns are the 8 configured ones in the configured order.
C11_FreshLedgerHasEmptyTable ==
    (entry = "setupStats" /\ ~pre.fileExists /\ pre.tables = EmptyFcn /\ pc = "idle")
        => /\ fileExists
           /\ HDFGet(tables, Key).ok
           /\ HDFGet(tables, Key).val.rows = <<>>
           /\ HDFGet(tables, Key).val.cols = statsCols
           /\ Len(statsCols) = 8

\* two versions that are the same but for "." in the one where the other
\* has "_"
SeparatorVariants(v, w) ==
    /\ Len(v) = Len(w)
    /\ \A i \in 1..Len(v) : v[i] = w[i] \/ {v[i], w[i]} = {".", "_"}

\* C12 as stated: getStatsName gives two distinct versions two distinct keys.
C12_CollisionFree ==
    \A k1, k2 \in keys : k1[1] # k2[1] => k1[2] # k2[2]

\* C12 as amended: getStatsName gives two versions the same key exactly when
\* they differ at most in having "." where the other has "_"; distinct
\* versions without "_" get distinct keys.
C12_CollisionOnlyBySeparator ==
    \A k1, k2 \in keys :
        /\ k1[2] = k2[2] <=> SeparatorVariants(k1[1], k2[1])
        /\ (k1[1] # k2[1] /\ "_" \notin Range(k1[1]) \cup Range(k2[1]))
              => k1[2] # k2[2]

\* two releases whose versions differ have been given the same key
C12_Witness ==
    \E k1, k2 \in keys : k1[1] # k2[1] /\ k1[2] = k2[2]

\* C13: the key getStatsName gives for a version is "stats_" followed by the
\* version with "_" for every "." and every other character as it is: "1.0"
\* gives "stats_1_0", "2.3.1" gives "stats_2_3_1"; a version has one key.
C13_KeyIsPrefixedVersion ==
    /\ \A k \in keys :
          /\ Len(k[2]) = 6 + Len(k[1])
          /\ SubSeq(k[2], 1, 6) = <<"s", "t", "a", "t", "s", "_">>
          /\ \A i \in 1..Len(k[1]) :
                k[2][6 + i] = IF k[1][i] = "." THEN "_" ELSE k[1][i]
          /\ k[1] = <<"1", ".", "0">>
                => k[2] = <<"s", "t", "a", "t", "s", "_", "1", "_", "0">>
          /\ k[1] = <<"2", ".", "3", ".", "1">>
                => k[2] = <<"s", "t", "a", "t", "s", "_", "2", "_", "3", "_", "1">>
    /\ \A k1, k2 \in keys : k1[1] = k2[1] => k1[2] = k2[2]

\* the keys of release 1.0 and of release 2.3.1 after it have been derived
C13_Witness ==
    /\ version = <<"2", ".", "3", ".", "1">>
    /\ <<version, getStatsName>> \in keys
    /\ \E k \in keys : k[1] = <<"1", ".", "0">>

\* the statements of experimentsImport
ExperimentsPcs ==
    {"experimentsImport", "experimentsImport_resolve", "experimentsImport_parallel",
     "experimentsImport_join", "experimentsImport_end"}

\* C14: experimentsImport never touches the ledger: whatever the projects,
\* the parallelism and the outcome of the adapters, during and after a call
\* of experimentsImport the ledger file and every table are as they were
\* before it, nothing has been given to hdf.append and no handle is open;
\* inside fullImport no step of the experiments stage changes the ledger.
C14_ExperimentsLeaveLedger ==
    [][ /\ entry' = "experimentsImport"
              => /\ tables' = pre'.tables
                 /\ fileExists' = pre'.fileExists
                 /\ written' = EmptyFcn
                 /\ handles' = 0
        /\ pc \in ExperimentsPcs
              => /\ tables' = tables
                 /\ fileExists' = fileExists
                 /\ handles' = handles
      ]_vars

\* a parallel experimentsImport has returned, the adapter having been
\* invoked, on a ledger that holds rows
C14_Witness ==
    /\ entry = "experimentsImport"
    /\ pc = "idle"
    /\ loc.n_jobs > 1
    /\ genCalls # EmptyFcn
    /\ RowsOf(tables, Key) # <<>>

\* the output directory experimentImport provisions for the project of a
\* delayed call
ProjectPath(t) == PathJoin(experimentsImportDirectory, t.project)

\* path is directly under directory root
Under(root, path) ==
    /\ IsPrefix(root \o <<"/">>, path)
    /\ Len(path) > Len(root) + 1
    /\ \A i \in (Len(root) + 2)..Len(path) : path[i] # "/"

\* C15: in a run of experimentsImport, called directly or from fullImport,
\* no two delayed calls are given the same output directory, every project
\* directory provisioned is <experiments import root>/<project> and every
\* dataset directory provisioned is <project directory>/<dataset>.
C15_PartitionedOutput ==
    (entry \in {"experimentsImport", "fullImport"} /\ pc = "experimentsImport_join")
        => /\ \A i, j \in 1..Len(tasks) :
                 i # j => ProjectPath(tasks[i]) # ProjectPath(tasks[j])
           /\ \A i \in 1..Len(tasks) :
                 tasks[i].st \in {"list", "checkDataset", "generate", "done"}
                    => Under(experimentsImportDirectory, ProjectPath(tasks[i]))
           /\ \A i \in 1..Len(tasks) :
                 tasks[i].st = "generate"
                    => Under(ProjectPath(tasks[i]),
                             PathJoin(ProjectPath(tasks[i]), tasks[i].datasets[tasks[i].k]))

\* C16: in a serial experimentsImport (n_jobs = 1) a delayed call that has
\* failed is the only one, no call after it in the list has been started,
\* none of its later datasets and no later project has been provisioned by
\* this run or handed to the adapter, and the only step left to
\* experimentsImport is to raise the error to its caller.
C16_SerialFailureAborts ==
    [][ /\ (entry' = "experimentsImport" /\ loc'.n_jobs = 1 /\ Failed' # {})
              => LET f == CHOOSE i \in Failed' : TRUE
                     t == tasks'[f]
                 IN /\ Failed' = {f}
                    /\ \A j \in (f + 1)..Len(tasks') :
                          /\ tasks'[j].st = "queued"
                          /\ ProjectPath(tasks'[j]) \notin dirs' \ pre'.dirs
                          /\ \A pair \in DOMAIN genCalls' : pair[1] # tasks'[j].project
                    /\ \A d \in (t.k + 1)..Len(t.datasets) :
                          /\ <<t.project, t.datasets[d]>> \notin DOMAIN genCalls'
                          /\ PathJoin(ProjectPath(t), t.datasets[d]) \notin dirs' \ pre'.dirs
                    /\ pc' \in {"experimentsImport_join", "error"}
        /\ (entry = "experimentsImport" /\ loc.n_jobs = 1 /\ Failed # {}
               /\ pc = "experimentsImport_join")
              => pc' = "error" /\ raised' /\ stack' = <<>>
      ]_vars

\* a serial experimentsImport has ended in the error of the adapter on the
\* first dataset of its first project, a dataset and a project being left
C16_Witness ==
    /\ entry = "experimentsImport"
    /\ loc.n_jobs = 1
    /\ pc = "error"
    /\ Len(tasks) = 2
    /\ tasks[1].st = "failed"
    /\ tasks[1].k = 1
    /\ Len(tasks[1].datasets) = 2
    /\ GenCount(<<tasks[1].project, tasks[1].datasets[1]>>) = 1
    /\ tasks[2].st = "queued"

\* C17: an adapter is only invoked for a unit whose output directory is
\* provisioned: the ontologies directory before the Ontology Adapter, the
\* databases directory before the Database Adapter and any of its units,
\* the project directory before the datasets of the project are enumerated,
\* and the dataset directory before the Experiment Adapter gets the dataset.
C17_ProvisionBeforeDelegate ==
    /\ pc \in {"ontologiesImport_gen", "ontologiesImport_write"}
          => PathJoin(importDirectory, ontologiesImportDir) \in dirs
    /\ (pc = "databasesImport_gen" \/ dbUnits # EmptyFcn)
          => PathJoin(importDirectory, databasesImportDir) \in dirs
    /\ \A i \in 1..Len(tasks) :
          /\ (tasks[i].st \in {"list", "checkDataset", "generate"}
                \/ tasks[i].datasets # <<>>)
                => ProjectPath(tasks[i]) \in dirs
          /\ tasks[i].st = "generate"
                => PathJoin(ProjectPath(tasks[i]), tasks[i].datasets[tasks[i].k]) \in dirs
    /\ \A pair \in DOMAIN genCalls :
          PathJoin(PathJoin(experimentsImportDirectory, pair[1]), pair[2]) \in dirs

\* the adapter is about to get the second dataset of a project while the
\* call of another project runs
C17_Witness ==
    /\ pc = "experimentsImport_join"
    /\ \E i, j \in 1..Len(tasks) :
          /\ i # j
          /\ tasks[i].st = "generate"
          /\ tasks[i].k = 2
          /\ TaskRunning(tasks[j])

\* C19: at most one ledger handle is open at any time; one is open from
\* the opening of the store in createEmptyStats or writeStats to its
\* hdf.close(), and none is open while control is anywhere else in a run.
C19_HandleDiscipline ==
    /\ handles \in {0, 1}
    /\ pc \in {"createEmptyStats_put", "createEmptyStats_close", "writeStats_close"}
          => handles = 1
    /\ pc \notin {"createEmptyStats_put", "createEmptyStats_close", "writeStats_append",
                  "writeStats_close", "error"}
          => handles = 0
    /\ pc = "writeStats_append" => handles = (IF loc.hdf = "open" THEN 1 ELSE 0)

\* fullImport, having made the ledger and appended to it once, has its
\* third handle open
C19_Witness ==
    /\ entry = "fullImport"
    /\ ~pre.fileExists
    /\ pc = "writeStats_close"
    /\ Count(log, "append") = 2
    /\ handles = 1

\* the key the running writeStats was asked to store under
AskedKey == IF loc.statsName.kind = "None" THEN Key ELSE loc.statsName.val

\* the keys of the releases other than the current one
OtherVersionKeys == {getStatsNameOf(v) : v \in LedgerVersions \ {version}}

\* what C18 says of every step but the first appearance of a table: only
\* hdf.append of writeStats changes a table, and only the one under the key
\* asked for; setupStats on a ledger file that exists makes no table
TablesIsolated ==
    /\ tables' # tables
          => /\ pc = "writeStats_append"
             /\ \A k \in (DOMAIN tables \cup DOMAIN tables') \ {AskedKey} :
                   /\ k \in DOMAIN tables
                   /\ k \in DOMAIN tables'
                   /\ tables'[k] = tables[k]
    /\ (entry' = "setupStats" /\ pre'.fileExists) => tables' = pre'.tables
    /\ \A k \in DOMAIN tables' \ DOMAIN tables :
          pc = "writeStats_append" /\ k = AskedKey

\* C18 as stated: writeStats under a key changes the table of that key
\* only; setupStats on a ledger file that exists makes no table, and the
\* table of the current version is there once the first writeStats under
\* that version has appended.
C18_TablePerVersionKey ==
    [][ /\ TablesIsolated
        /\ (pc = "writeStats_append" /\ pc' = "writeStats_close")
              => AskedKey \in DOMAIN tables'
      ]_vars

\* C18 as amended: the same, but the table of the current version is there
\* once a writeStats under that version has appended a frame with rows; an
\* append of a frame without rows changes nothing and makes no table.
C18_TablePerVersionKeyWithRows ==
    [][ /\ TablesIsolated
        /\ (pc = "writeStats_append" /\ pc' = "writeStats_close")
              => IF loc.statsDf.rows # <<>>
                 THEN /\ AskedKey \in DOMAIN tables'
                      /\ tables'[AskedKey].rows = RowsOf(tables, AskedKey) \o loc.statsDf.rows
                 ELSE tables' = tables
      ]_vars

\* on a ledger that held the table of the release before and no other, the
\* first writeStats of the current release has returned and its table is
\* there, the other table being as it was
C18_Witness ==
    /\ entry = "writeStats"
    /\ pc = "idle"
    /\ pre.fileExists
    /\ DOMAIN pre.tables # {}
    /\ DOMAIN pre.tables \subseteq OtherVersionKeys
    /\ DOMAIN tables = DOMAIN pre.tables \cup {Key}
    /\ \A k \in DOMAIN pre.tables : tables[k] = pre.tables[k]

====
